---------------------------- MODULE Spec2Model ----------------------------
(* FoodBank Kiosk (src/FB Kiosk/main.py): the Cart class, the module-level *)
(* cart and validate_order_fields, as a state machine.                     *)
(*                                                                         *)
(* A Python str is a sequence of one-character tokens; the token "SUP2"    *)
(* stands for U+00B2 (superscript two), a character for which str.isdigit  *)
(* is True and which int() does not accept.  A cart line is the tuple      *)
(* <<name, quantity>>.  Positions are 1-based here (Python's index i is    *)
(* position i+1) and position 0 stands for None.                           *)
EXTENDS Integers, Sequences, FiniteSets, TLC

VARIABLES
    items,          \* Cart._items: the list of (name, quantity) tuples
    max_per_item,   \* Cart.max_per_item
    last,           \* the call made by the last step: arguments and result
    snap,           \* a list returned by to_list() that its caller still holds
    disk,           \* data/items.csv: whether it can be read, and its rows
    ui              \* the kiosk's windows: which exist, what they show, the grab

vars == <<items, max_per_item, last, snap, disk, ui>>

(* what the Cart methods and validate_order_fields never touch *)
ext == <<snap, disk, ui>>

-----------------------------------------------------------------------------
(* Bounds of the model *)

NumNames == 2       \* distinct item names offered to the cart operations
MaxCap == 2         \* Cart(max_per_item = M) is constructed with M in 1..MaxCap
QtyBelow == 2       \* quantity arguments start at 1 - QtyBelow
QtyOver == 1        \* quantity arguments end at max_per_item + QtyOver
MaxStrLen == 3      \* longest quantity string given to validate_order_fields
NumKioskNames == 1  \* distinct item names offered to the kiosk's cart (cap 10)
NumOrderNames == 3  \* distinct item names where the order of the lines is observed
OrderCap == 1       \* ... in carts Cart(max_per_item = M) with M in 1..OrderCap

(* Program constant: cart = Cart(max_per_item=10) *)
KioskMaxPerItem == 10

-----------------------------------------------------------------------------
(* Python values *)

Min(a, b) == IF a < b THEN a ELSE b

DecimalChars == {"0", "1", "2", "3", "4", "5", "6", "7", "8", "9"}

DigitChar(d) ==
    CASE d = 0 -> "0" [] d = 1 -> "1" [] d = 2 -> "2" [] d = 3 -> "3"
      [] d = 4 -> "4" [] d = 5 -> "5" [] d = 6 -> "6" [] d = 7 -> "7"
      [] d = 8 -> "8" [] d = 9 -> "9"

DigitVal(c) == CHOOSE d \in 0..9 : DigitChar(d) = c

(* str(n) for a non-negative int n *)
RECURSIVE NatToStr(_)
NatToStr(n) ==
    IF n < 10 THEN <<DigitChar(n)>>
    ELSE NatToStr(n \div 10) \o <<DigitChar(n % 10)>>

(* str(n) for an int n *)
IntToStr(n) == IF n < 0 THEN <<"-">> \o NatToStr(0 - n) ELSE NatToStr(n)

IsSpace(c) == c = " "

(* str.strip(): leading and trailing whitespace removed *)
RECURSIVE LStrip(_)
LStrip(s) == IF s # <<>> /\ IsSpace(Head(s)) THEN LStrip(Tail(s)) ELSE s

RECURSIVE RStrip(_)
RStrip(s) ==
    IF s # <<>> /\ IsSpace(s[Len(s)]) THEN RStrip(SubSeq(s, 1, Len(s) - 1)) ELSE s

Strip(s) == RStrip(LStrip(s))

(* str.isdigit(): non-empty and every character is a digit character;    *)
(* superscript digits count as digits for isdigit                        *)
IsDigitChar(c) == c \in DecimalChars \/ c = "SUP2"

IsDigit(s) == s # <<>> /\ \A i \in 1..Len(s) : IsDigitChar(s[i])

(* int(s) accepts s when, after trimming, it is an optional sign and      *)
(* decimal digits; for the strings that pass isdigit this is: all decimal *)
IntAccepts(s) == s # <<>> /\ \A i \in 1..Len(s) : s[i] \in DecimalChars

RECURSIVE ParseInt(_)
ParseInt(s) ==
    IF s = <<>> THEN 0
    ELSE 10 * ParseInt(SubSeq(s, 1, Len(s) - 1)) + DigitVal(s[Len(s)])

(* f"{prefix}{n}{suffix}" *)
Fmt(prefix, n, suffix) == <<prefix>> \o IntToStr(n) \o <<suffix>>

-----------------------------------------------------------------------------
(* class Cart *)

NameOf(i) ==
    CASE i = 1 -> <<"A">>
      [] i = 2 -> <<"B">>
      [] i = 3 -> <<>>
      [] OTHER -> [k \in 1..(i - 2) |-> "C"]

Names == {NameOf(i) : i \in 1..NumNames}

KioskNames == {NameOf(i) : i \in 1..NumKioskNames}

OrderNames == {NameOf(i) : i \in 1..NumOrderNames}

QtyArgs == (1 - QtyBelow)..(max_per_item + QtyOver)

InCart(its, name) == \E i \in 1..Len(its) : its[i][1] = name

QtyOf(its, name) ==
    LET i == CHOOSE k \in 1..Len(its) : its[k][1] = name IN its[i][2]

(* Cart.to_list: list(self._items) *)
ToList(its) == [i \in 1..Len(its) |-> its[i]]

(* find_index with the scan started at the second line *)
FindIndexSkipFirst(its, name) ==
    IF \E i \in 2..Len(its) : its[i][1] = name
    THEN CHOOSE i \in 2..Len(its) :
            /\ its[i][1] = name
            /\ \A j \in 2..(i - 1) : its[j][1] # name
    ELSE 0

(* Cart.find_index: the first position whose name matches, 0 for None *)
FindIndex(its, name) ==
    IF \E i \in 1..Len(its) : its[i][1] = name
    THEN CHOOSE i \in 1..Len(its) :
            /\ its[i][1] = name
            /\ \A j \in 1..(i - 1) : its[j][1] # name
    ELSE 0

(* removal by overwriting position idx with the last line *)
PopSwapWithLast(its, idx) ==
    IF idx = Len(its) THEN SubSeq(its, 1, Len(its) - 1)
    ELSE [SubSeq(its, 1, Len(its) - 1) EXCEPT ![idx] = its[Len(its)]]

(* list.pop(idx) *)
Pop(its, idx) == SubSeq(its, 1, idx - 1) \o SubSeq(its, idx + 1, Len(its))

(* add_item with the sum stored uncapped on the update path *)
AddItemUncappedUpdate(its, M, name, qty) ==
    IF qty < 1
    THEN [items |-> its, ok |-> FALSE, msg |-> <<"Quantity must be at least 1.">>]
    ELSE LET idx == FindIndex(its, name) IN
         IF idx = 0
         THEN [items |-> Append(its, <<name, Min(qty, M)>>),
               ok |-> TRUE,
               msg |-> IF qty > M THEN Fmt("Added (capped at ", M, ").")
                                  ELSE <<"Added.">>]
         ELSE LET existing_qty == its[idx][2] IN
              [items |-> [its EXCEPT ![idx] = <<name, existing_qty + qty>>],
               ok |-> TRUE,
               msg |-> IF existing_qty + qty > M
                       THEN Fmt("Updated (capped at ", M, ").")
                       ELSE <<"Updated.">>]

(* add_item with the guard written qty < 0 *)
AddItemAllowsZero(its, M, name, qty) ==
    IF qty < 0
    THEN [items |-> its, ok |-> FALSE, msg |-> <<"Quantity must be at least 1.">>]
    ELSE LET idx == FindIndex(its, name) IN
         IF idx = 0
         THEN [items |-> Append(its, <<name, Min(qty, M)>>),
               ok |-> TRUE,
               msg |-> IF qty > M THEN Fmt("Added (capped at ", M, ").")
                                  ELSE <<"Added.">>]
         ELSE LET existing_qty == its[idx][2] IN
              [items |-> [its EXCEPT ![idx] = <<name, Min(existing_qty + qty, M)>>],
               ok |-> TRUE,
               msg |-> IF existing_qty + qty > M
                       THEN Fmt("Updated (capped at ", M, ").")
                       ELSE <<"Updated.">>]

(* add_item with the quantity of a present line replaced instead of increased *)
AddItemReplacesQuantity(its, M, name, qty) ==
    IF qty < 1
    THEN [items |-> its, ok |-> FALSE, msg |-> <<"Quantity must be at least 1.">>]
    ELSE LET idx == FindIndex(its, name) IN
         IF idx = 0
         THEN [items |-> Append(its, <<name, Min(qty, M)>>),
               ok |-> TRUE,
               msg |-> IF qty > M THEN Fmt("Added (capped at ", M, ").")
                                  ELSE <<"Added.">>]
         ELSE LET existing_qty == its[idx][2] IN
              [items |-> [its EXCEPT ![idx] = <<name, Min(qty, M)>>],
               ok |-> TRUE,
               msg |-> IF existing_qty + qty > M
                       THEN Fmt("Updated (capped at ", M, ").")
                       ELSE <<"Updated.">>]

(* add_item with the requested quantity appended uncapped *)
AddItemAppendsUncapped(its, M, name, qty) ==
    IF qty < 1
    THEN [items |-> its, ok |-> FALSE, msg |-> <<"Quantity must be at least 1.">>]
    ELSE LET idx == FindIndex(its, name) IN
         IF idx = 0
         THEN [items |-> Append(its, <<name, qty>>),
               ok |-> TRUE,
               msg |-> IF qty > M THEN Fmt("Added (capped at ", M, ").")
                                  ELSE <<"Added.">>]
         ELSE LET existing_qty == its[idx][2] IN
              [items |-> [its EXCEPT ![idx] = <<name, Min(existing_qty + qty, M)>>],
               ok |-> TRUE,
               msg |-> IF existing_qty + qty > M
                       THEN Fmt("Updated (capped at ", M, ").")
                       ELSE <<"Updated.">>]

(* add_item that starts again from the overshoot when the sum passes the cap *)
AddItemWrapsAtCap(its, M, name, qty) ==
    IF qty < 1
    THEN [items |-> its, ok |-> FALSE, msg |-> <<"Quantity must be at least 1.">>]
    ELSE LET idx == FindIndex(its, name) IN
         IF idx = 0
         THEN [items |-> Append(its, <<name, Min(qty, M)>>),
               ok |-> TRUE,
               msg |-> IF qty > M THEN Fmt("Added (capped at ", M, ").")
                                  ELSE <<"Added.">>]
         ELSE LET existing_qty == its[idx][2] IN
              [items |-> [its EXCEPT ![idx] =
                            <<name, IF existing_qty + qty > M
                                    THEN Min(existing_qty + qty - M, M)
                                    ELSE existing_qty + qty>>],
               ok |-> TRUE,
               msg |-> IF existing_qty + qty > M
                       THEN Fmt("Updated (capped at ", M, ").")
                       ELSE <<"Updated.">>]

(* add_item with the capping tests written >= max_per_item *)
AddItemCappedAtEqual(its, M, name, qty) ==
    IF qty < 1
    THEN [items |-> its, ok |-> FALSE, msg |-> <<"Quantity must be at least 1.">>]
    ELSE LET idx == FindIndex(its, name) IN
         IF idx = 0
         THEN [items |-> Append(its, <<name, Min(qty, M)>>),
               ok |-> TRUE,
               msg |-> IF qty >= M THEN Fmt("Added (capped at ", M, ").")
                                   ELSE <<"Added.">>]
         ELSE LET existing_qty == its[idx][2] IN
              [items |-> [its EXCEPT ![idx] = <<name, Min(existing_qty + qty, M)>>],
               ok |-> TRUE,
               msg |-> IF existing_qty + qty >= M
                       THEN Fmt("Updated (capped at ", M, ").")
                       ELSE <<"Updated.">>]

(* Cart.add_item: the list afterwards and the returned (ok, msg) *)
AddItemResult(its, M, name, qty) ==
    IF qty < 1
    THEN [items |-> its, ok |-> FALSE, msg |-> <<"Quantity must be at least 1.">>]
    ELSE LET idx == FindIndex(its, name) IN
         IF idx = 0
         THEN LET capped == Min(qty, M) IN
              [items |-> Append(its, <<name, capped>>),
               ok |-> TRUE,
               msg |-> IF qty > M THEN Fmt("Added (capped at ", M, ").")
                                  ELSE <<"Added.">>]
         ELSE LET existing_qty == its[idx][2]
                  new_qty == Min(existing_qty + qty, M) IN
              [items |-> [its EXCEPT ![idx] = <<name, new_qty>>],
               ok |-> TRUE,
               msg |-> IF existing_qty + qty > M
                       THEN Fmt("Updated (capped at ", M, ").")
                       ELSE <<"Updated.">>]

(* remove_item written del self._items[idx:], which also drops the lines *)
(* after the named one                                                   *)
RemoveItemFromIndex(its, name) ==
    LET idx == FindIndex(its, name) IN
    IF idx # 0
    THEN [items |-> SubSeq(its, 1, idx - 1), ok |-> TRUE]
    ELSE [items |-> its, ok |-> FALSE]

(* remove_item with the test written "if idx:", so that Python's index 0 *)
(* (position 1 here) counts as not found                                *)
RemoveItemTruthy(its, name) ==
    LET idx == FindIndex(its, name) IN
    IF idx > 1
    THEN [items |-> Pop(its, idx), ok |-> TRUE]
    ELSE [items |-> its, ok |-> FALSE]

(* Cart.remove_item: the list afterwards and the returned bool *)
RemoveItemResult(its, name) ==
    LET idx == FindIndex(its, name) IN
    IF idx # 0
    THEN [items |-> Pop(its, idx), ok |-> TRUE]
    ELSE [items |-> its, ok |-> FALSE]

(* adjust_quantity with the upper test written qty >= max_per_item *)
AdjustQuantityOffByOne(its, M, name, qty) ==
    LET idx == FindIndex(its, name) IN
    IF idx = 0
    THEN [items |-> its, ok |-> FALSE, msg |-> <<"Item not in cart.">>]
    ELSE IF qty < 1 \/ qty >= M
    THEN [items |-> its, ok |-> FALSE,
          msg |-> Fmt("Quantity must be between 1 and ", M, ".")]
    ELSE [items |-> [its EXCEPT ![idx] = <<name, qty>>],
          ok |-> TRUE, msg |-> <<"Quantity updated.">>]

(* Cart.adjust_quantity: the list afterwards and the returned (ok, msg) *)
AdjustQuantityResult(its, M, name, qty) ==
    LET idx == FindIndex(its, name) IN
    IF idx = 0
    THEN [items |-> its, ok |-> FALSE, msg |-> <<"Item not in cart.">>]
    ELSE IF qty < 1 \/ qty > M
    THEN [items |-> its, ok |-> FALSE,
          msg |-> Fmt("Quantity must be between 1 and ", M, ".")]
    ELSE [items |-> [its EXCEPT ![idx] = <<name, qty>>],
          ok |-> TRUE, msg |-> <<"Quantity updated.">>]

(* clear written as one pop() of the last line *)
ClearPopsLast(its) == SubSeq(its, 1, Len(its) - 1)

(* Cart.clear *)
ClearResult(its) == <<>>

(* Cart.is_empty *)
IsEmpty(its) == Len(its) = 0

(* add_item(name, quantity) and adjust_quantity(name, quantity) called    *)
(* with a Python value: comparing a str with 1 raises TypeError           *)
AddItemCall(its, M, name, isInt, n, s) ==
    IF isInt
    THEN LET r == AddItemResult(its, M, name, n) IN
         [items |-> r.items, ok |-> r.ok, msg |-> r.msg, exc |-> ""]
    ELSE [items |-> its, ok |-> FALSE, msg |-> <<>>, exc |-> "TypeError"]

AdjustQuantityCall(its, M, name, isInt, n, s) ==
    IF isInt \/ FindIndex(its, name) = 0
    THEN LET r == AdjustQuantityResult(its, M, name, n) IN
         [items |-> r.items, ok |-> r.ok, msg |-> r.msg, exc |-> ""]
    ELSE [items |-> its, ok |-> FALSE, msg |-> <<>>, exc |-> "TypeError"]

-----------------------------------------------------------------------------
(* validate_order_fields(item_name, quantity)                             *)
(* quantity is an int (isInt, n) or a str (s); exc names the exception    *)
(* that leaves the function, "" when it returns                           *)

StrOf(isInt, n, s) == IF isInt THEN IntToStr(n) ELSE s

(* validate_order_fields with the last test written q >= max_per_item *)
ValidateRejectsCap(M, item_name, isInt, n, s) ==
    IF item_name = <<>> \/ Strip(item_name) = <<>>
    THEN [ok |-> FALSE, msg |-> <<"Item name is required.">>, exc |-> ""]
    ELSE LET q_str == Strip(StrOf(isInt, n, s)) IN
         IF ~IsDigit(q_str)
         THEN [ok |-> FALSE, msg |-> <<"Quantity must be a whole number.">>,
               exc |-> ""]
         ELSE IF ~IntAccepts(q_str)
         THEN [ok |-> FALSE, msg |-> <<>>, exc |-> "ValueError"]
         ELSE LET q == ParseInt(q_str) IN
              IF q <= 0
              THEN [ok |-> FALSE, msg |-> <<"Quantity must be greater than zero.">>,
                    exc |-> ""]
              ELSE IF q >= M
              THEN [ok |-> FALSE, msg |-> Fmt("Quantity must be no more than ", M, "."),
                    exc |-> ""]
              ELSE [ok |-> TRUE, msg |-> <<>>, exc |-> ""]

ValidateOrderFields(M, item_name, isInt, n, s) ==
    IF item_name = <<>> \/ Strip(item_name) = <<>>
    THEN [ok |-> FALSE, msg |-> <<"Item name is required.">>, exc |-> ""]
    ELSE LET q_str == Strip(StrOf(isInt, n, s)) IN
         IF ~IsDigit(q_str)
         THEN [ok |-> FALSE, msg |-> <<"Quantity must be a whole number.">>,
               exc |-> ""]
         ELSE IF ~IntAccepts(q_str)
         THEN [ok |-> FALSE, msg |-> <<>>, exc |-> "ValueError"]
         ELSE LET q == ParseInt(q_str) IN
              IF q <= 0
              THEN [ok |-> FALSE, msg |-> <<"Quantity must be greater than zero.">>,
                    exc |-> ""]
              ELSE IF q > M
              THEN [ok |-> FALSE, msg |-> Fmt("Quantity must be no more than ", M, "."),
                    exc |-> ""]
              ELSE [ok |-> TRUE, msg |-> <<>>, exc |-> ""]

-----------------------------------------------------------------------------
(* The inputs given to validate_order_fields *)

NameInputs == Names \cup {<<>>, <<" ">>, <<" ", "A", " ">>}

FewNameInputs == {<<>>, <<" ">>, <<"A">>}

QtyChars == {"0", "1", "5", "-", " ", "SUP2"}

Strings(L) == UNION {[1..k -> QtyChars] : k \in 0..L}

QuantityInputs(L) ==
    {[isInt |-> TRUE, n |-> q, s |-> <<>>] : q \in QtyArgs}
    \cup {[isInt |-> FALSE, n |-> 0, s |-> str] : str \in Strings(L)}

-----------------------------------------------------------------------------
(* The record of a call: its arguments, what it returned (ok, msg, idx,    *)
(* list) or raised (exc), and the cart as it was when the call was made   *)
(* (before, cap)                                                          *)

Call(op, name, isInt, n, s, ok, msg, idx, list, exc) ==
    [op |-> op, name |-> name, isInt |-> isInt, qty |-> n, qstr |-> s,
     ok |-> ok, msg |-> msg, idx |-> idx, list |-> list, exc |-> exc,
     before |-> items, cap |-> max_per_item]

(* Nothing outside the cart: no list handed out, no catalog file, only *)
(* the root window                                                     *)
NoSnap == [held |-> FALSE, fresh |-> TRUE, val |-> <<>>]

NoDisk == [status |-> "missing", rows |-> <<>>]

NoPopup == [kind |-> "none", k |-> 0, name |-> <<>>, qty |-> 0]

NoGrab == [kind |-> "none", k |-> 0]

NumCartWindows == 2

CartWindowIds == 1..NumCartWindows

RootOnly ==
    [grab |-> NoGrab, itemsOpen |-> FALSE, popup |-> NoPopup,
     cartWin |-> [k \in CartWindowIds |-> [open |-> FALSE, rows |-> <<>>]]]

InitExt ==
    /\ snap = NoSnap
    /\ disk = NoDisk
    /\ ui = RootOnly

(* cart = Cart(max_per_item=M): an empty list and the cap *)
Init ==
    /\ items = <<>>
    /\ max_per_item \in 1..MaxCap
    /\ last = Call("init", <<>>, TRUE, 0, <<>>, TRUE, <<>>, 0, <<>>, "")
    /\ InitExt

AddItem(N) ==
    \E name \in N, qty \in QtyArgs :
        LET r == AddItemResult(items, max_per_item, name, qty) IN
        /\ items' = r.items
        /\ last' = Call("add_item", name, TRUE, qty, <<>>, r.ok, r.msg, 0, <<>>, "")
        /\ UNCHANGED max_per_item
        /\ UNCHANGED ext

RemoveItem(N) ==
    \E name \in N :
        LET r == RemoveItemResult(items, name) IN
        /\ items' = r.items
        /\ last' = Call("remove_item", name, TRUE, 0, <<>>, r.ok, <<>>, 0, <<>>, "")
        /\ UNCHANGED max_per_item
        /\ UNCHANGED ext

AdjustQuantity(N) ==
    \E name \in N, qty \in QtyArgs :
        LET r == AdjustQuantityResult(items, max_per_item, name, qty) IN
        /\ items' = r.items
        /\ last' = Call("adjust_quantity", name, TRUE, qty, <<>>, r.ok, r.msg, 0, <<>>, "")
        /\ UNCHANGED max_per_item
        /\ UNCHANGED ext

Clear ==
    /\ items' = ClearResult(items)
    /\ last' = Call("clear", <<>>, TRUE, 0, <<>>, TRUE, <<>>, 0, <<>>, "")
    /\ UNCHANGED max_per_item
    /\ UNCHANGED ext

ToListCall ==
    /\ last' = Call("to_list", <<>>, TRUE, 0, <<>>, TRUE, <<>>, 0, ToList(items), "")
    /\ UNCHANGED <<items, max_per_item>>
    /\ UNCHANGED ext

FindIndexCall(N) ==
    \E name \in N :
        /\ last' = Call("find_index", name, TRUE, 0, <<>>, TRUE, <<>>,
                        FindIndex(items, name), <<>>, "")
        /\ UNCHANGED <<items, max_per_item>>
        /\ UNCHANGED ext

IsEmptyCall ==
    /\ last' = Call("is_empty", <<>>, TRUE, 0, <<>>, IsEmpty(items), <<>>, 0, <<>>, "")
    /\ UNCHANGED <<items, max_per_item>>
    /\ UNCHANGED ext

(* validate_order_fields that adds the item to the cart once it is valid *)
ValidateAndAdd(N, L) ==
    \E item_name \in N, quantity \in QuantityInputs(L) :
        LET r == ValidateOrderFields(max_per_item, item_name,
                                     quantity.isInt, quantity.n, quantity.s) IN
        /\ last' = Call("validate_order_fields", item_name, quantity.isInt,
                        quantity.n, quantity.s, r.ok, r.msg, 0, <<>>, r.exc)
        /\ items' = IF r.ok THEN Append(items, <<item_name, 1>>) ELSE items
        /\ UNCHANGED max_per_item
        /\ UNCHANGED ext

(* validate_order_fields reads the module-level cart's max_per_item *)
Validate(N, L) ==
    \E item_name \in N, quantity \in QuantityInputs(L) :
        LET r == ValidateOrderFields(max_per_item, item_name,
                                     quantity.isInt, quantity.n, quantity.s) IN
        /\ last' = Call("validate_order_fields", item_name, quantity.isInt,
                        quantity.n, quantity.s, r.ok, r.msg, 0, <<>>, r.exc)
        /\ UNCHANGED <<items, max_per_item>>
        /\ UNCHANGED ext

(* Any Cart(max_per_item = M), its operations called in any order *)
Next ==
    \/ AddItem(Names)
    \/ RemoveItem(Names)
    \/ AdjustQuantity(Names)
    \/ Clear
    \/ ToListCall
    \/ FindIndexCall(Names)
    \/ IsEmptyCall
    \/ Validate(FewNameInputs, 1)

Spec == Init /\ [][Next]_vars

(* The kiosk's cart, cart = Cart(max_per_item=10) *)
InitKiosk ==
    /\ items = <<>>
    /\ max_per_item = KioskMaxPerItem
    /\ last = Call("init", <<>>, TRUE, 0, <<>>, TRUE, <<>>, 0, <<>>, "")
    /\ InitExt

NextKiosk ==
    \/ AddItem(KioskNames)
    \/ RemoveItem(KioskNames)
    \/ AdjustQuantity(KioskNames)
    \/ Clear

SpecKiosk == InitKiosk /\ [][NextKiosk]_vars

(* Carts of more names and a small cap, where the order of lines shows *)
InitOrder ==
    /\ items = <<>>
    /\ max_per_item \in 1..OrderCap
    /\ last = Call("init", <<>>, TRUE, 0, <<>>, TRUE, <<>>, 0, <<>>, "")
    /\ InitExt

NextOrder ==
    \/ AddItem(OrderNames)
    \/ RemoveItem(OrderNames)
    \/ AdjustQuantity(OrderNames)
    \/ Clear
    \/ ToListCall

SpecOrder == InitOrder /\ [][NextOrder]_vars

(* validate_order_fields as a function of its inputs: the initial state   *)
(* holds the arguments of a pending call and the one step makes the call  *)
InitValidate ==
    /\ items = <<>>
    /\ max_per_item \in (1..MaxCap) \cup {KioskMaxPerItem}
    /\ \E item_name \in NameInputs, quantity \in QuantityInputs(MaxStrLen) :
          last = Call("pending", item_name, quantity.isInt, quantity.n,
                      quantity.s, FALSE, <<>>, 0, <<>>, "")
    /\ InitExt

ValidatePending ==
    /\ last.op = "pending"
    /\ LET r == ValidateOrderFields(max_per_item, last.name,
                                    last.isInt, last.qty, last.qstr) IN
       last' = Call("validate_order_fields", last.name, last.isInt,
                    last.qty, last.qstr, r.ok, r.msg, 0, <<>>, r.exc)
    /\ UNCHANGED <<items, max_per_item>>
    /\ UNCHANGED ext

NextValidate == ValidatePending

SpecValidate == InitValidate /\ [][NextValidate]_vars

-----------------------------------------------------------------------------
(* Properties of the cart *)

(* C1: every line of the cart has a quantity q with 1 <= q <= max_per_item, *)
(* after any sequence of add_item, remove_item, adjust_quantity and clear   *)
C1_QuantityInRange ==
    \A i \in 1..Len(items) : 1 <= items[i][2] /\ items[i][2] <= max_per_item

(* an add_item on a present name whose sum exceeds the cap left it at the cap *)
C1_Witness ==
    /\ last.op = "add_item"
    /\ InCart(last.before, last.name)
    /\ QtyOf(last.before, last.name) + last.qty > max_per_item
    /\ QtyOf(items, last.name) = max_per_item

(* C2: no two lines of the cart have the same item name *)
C2_UniqueNames ==
    \A i, j \in 1..Len(items) : items[i][1] = items[j][1] => i = j

(* an add_item on a name already present, in a cart of two lines *)
C2_Witness ==
    /\ last.op = "add_item"
    /\ last.ok
    /\ InCart(last.before, last.name)
    /\ Len(items) >= 2

(* C3: adjust_quantity(name, q) returns ok=True iff name is in the cart and *)
(* 1 <= q <= max_per_item; on success the line's quantity is exactly q; on  *)
(* failure the cart is as it was, with "Item not in cart." for an absent    *)
(* name and the range message for an out-of-range q                         *)
C3_AdjustBounds ==
    last.op = "adjust_quantity" =>
        LET present == InCart(last.before, last.name)
            inRange == 1 <= last.qty /\ last.qty <= last.cap IN
        /\ last.ok <=> (present /\ inRange)
        /\ last.ok => /\ InCart(items, last.name)
                      /\ QtyOf(items, last.name) = last.qty
                      /\ \A i \in 1..Len(items) :
                            items[i][1] = last.name => items[i][2] = last.qty
        /\ ~last.ok => items = last.before
        /\ ~present => last.msg = <<"Item not in cart.">>
        /\ (present /\ ~inRange) =>
              last.msg = Fmt("Quantity must be between 1 and ", last.cap, ".")

(* a successful adjust_quantity that changed the line's quantity *)
C3_Witness ==
    /\ last.op = "adjust_quantity"
    /\ last.ok
    /\ QtyOf(last.before, last.name) # last.qty
    /\ QtyOf(items, last.name) = last.qty

(* C4: remove_item(name) returns True iff name was in the cart before the  *)
(* call; afterwards name is not in the cart; on False the cart is unchanged *)
C4_RemoveCorrect ==
    last.op = "remove_item" =>
        /\ last.ok <=> InCart(last.before, last.name)
        /\ ~InCart(items, last.name)
        /\ ~last.ok => items = last.before

(* a remove_item that deleted the first of two lines *)
C4_Witness ==
    /\ last.op = "remove_item"
    /\ last.ok
    /\ Len(last.before) = 2
    /\ last.before[1][1] = last.name
    /\ Len(items) = 1

(* C5: add_item(name, qty) with qty < 1 returns (False, "Quantity must be *)
(* at least 1.") and leaves the cart unchanged, whether or not name is in *)
(* the cart; with qty >= 1 it returns ok=True                             *)
C5_AddRejectsBelowOne ==
    last.op = "add_item" =>
        IF last.qty < 1
        THEN /\ ~last.ok
             /\ last.msg = <<"Quantity must be at least 1.">>
             /\ items = last.before
        ELSE last.ok

(* add_item with qty < 1 on a name that is in the cart *)
C5_Witness ==
    /\ last.op = "add_item"
    /\ last.qty < 1
    /\ InCart(last.before, last.name)
    /\ ~last.ok

(* C6: add_item(name, qty) with qty >= 1 on a name present with quantity e *)
(* sets the line to min(e + qty, max_per_item) and returns (True,           *)
(* "Updated.") if e + qty <= max_per_item, else (True, "Updated (capped at  *)
(* M)."); with Apple=8 and M=10, add_item("Apple", 5) returns the capped    *)
(* message and leaves Apple at 10                                           *)
C6_AddToPresent ==
    (last.op = "add_item" /\ last.qty >= 1 /\ InCart(last.before, last.name)) =>
        LET e == QtyOf(last.before, last.name)
            M == last.cap IN
        /\ last.ok
        /\ InCart(items, last.name)
        /\ QtyOf(items, last.name) = (IF e + last.qty <= M THEN e + last.qty ELSE M)
        /\ Len(items) = Len(last.before)
        /\ last.msg = (IF e + last.qty <= M THEN <<"Updated.">>
                       ELSE Fmt("Updated (capped at ", M, ")."))
        /\ (M = 10 /\ e = 8 /\ last.qty = 5) =>
              /\ QtyOf(items, last.name) = 10
              /\ last.msg = <<"Updated (capped at ", "1", "0", ").">>

(* the kiosk's cart held 8 of the item and add_item(name, 5) was called *)
C6_Witness ==
    /\ last.op = "add_item"
    /\ last.cap = 10
    /\ InCart(last.before, last.name)
    /\ QtyOf(last.before, last.name) = 8
    /\ last.qty = 5
    /\ QtyOf(items, last.name) = 10

(* C7: add_item(name, qty) with qty >= 1 on an absent name appends exactly *)
(* one line (name, min(qty, max_per_item)) and returns (True, "Added.") if  *)
(* qty <= max_per_item, else (True, "Added (capped at M)."); on a fresh     *)
(* cart add_item(name, 1) gives to_list() == [(name, 1)]                    *)
C7_AddAbsent ==
    (last.op = "add_item" /\ last.qty >= 1 /\ ~InCart(last.before, last.name)) =>
        LET M == last.cap
            q == IF last.qty <= M THEN last.qty ELSE M IN
        /\ last.ok
        /\ items = Append(last.before, <<last.name, q>>)
        /\ last.msg = (IF last.qty <= M THEN <<"Added.">>
                       ELSE Fmt("Added (capped at ", M, ")."))
        /\ (last.before = <<>> /\ last.qty = 1) =>
              /\ ToList(items) = << <<last.name, 1>> >>
              /\ last.msg = <<"Added.">>

(* a capped add_item of an absent name to a cart that already had a line *)
C7_Witness ==
    /\ last.op = "add_item"
    /\ ~InCart(last.before, last.name)
    /\ Len(last.before) >= 1
    /\ last.qty > last.cap
    /\ items[Len(items)] = <<last.name, last.cap>>

IsCappingMsg(msg) ==
    msg # <<>> /\ Head(msg) \in {"Added (capped at ", "Updated (capped at "}

(* C8 as stated: add_item(name, qty) with qty equal to max_per_item is     *)
(* accepted and its message is not a capping message, whether name is       *)
(* absent from the cart or already present                                  *)
C8_Original ==
    (last.op = "add_item" /\ last.qty = last.cap) =>
        /\ last.ok
        /\ ~IsCappingMsg(last.msg)

(* C8 amended: add_item(name, qty) with qty equal to max_per_item is       *)
(* accepted; for an absent name the message is "Added." (no capping        *)
(* message) and the line gets max_per_item; for a present name the line is *)
(* capped at max_per_item and the message is "Updated (capped at M)."      *)
C8_BorderlineAdd ==
    (last.op = "add_item" /\ last.qty = last.cap) =>
        /\ last.ok
        /\ QtyOf(items, last.name) = last.cap
        /\ IF InCart(last.before, last.name)
           THEN last.msg = Fmt("Updated (capped at ", last.cap, ").")
           ELSE last.msg = <<"Added.">>

(* add_item with qty = max_per_item on a name already in the cart *)
C8_Witness ==
    /\ last.op = "add_item"
    /\ last.qty = last.cap
    /\ InCart(last.before, last.name)
    /\ IsCappingMsg(last.msg)

OnlyDecimalDigits(s) == s # <<>> /\ \A i \in 1..Len(s) : s[i] \in DecimalChars

(* C9: validate_order_fields returns the result of the first failing check: *)
(* (False, "Item name is required.") if item_name is empty after trimming;  *)
(* else (False, "Quantity must be a whole number.") if the trimmed string   *)
(* form of quantity is not made only of decimal digits; else (False,        *)
(* "Quantity must be greater than zero.") if the value is 0; else (False,   *)
(* "Quantity must be no more than M.") if it exceeds max_per_item; and      *)
(* (True, "") exactly when the name is non-empty and 1 <= quantity <= M     *)
C9_ValidateChecksInOrder ==
    last.op = "validate_order_fields" =>
        LET q_str == Strip(StrOf(last.isInt, last.qty, last.qstr))
            M == last.cap
            expected ==
                IF Strip(last.name) = <<>>
                THEN <<FALSE, <<"Item name is required.">> >>
                ELSE IF ~OnlyDecimalDigits(q_str)
                THEN <<FALSE, <<"Quantity must be a whole number.">> >>
                ELSE IF ParseInt(q_str) = 0
                THEN <<FALSE, <<"Quantity must be greater than zero.">> >>
                ELSE IF ParseInt(q_str) > M
                THEN <<FALSE, Fmt("Quantity must be no more than ", M, ".")>>
                ELSE <<TRUE, <<>> >> IN
        /\ last.exc = ""
        /\ <<last.ok, last.msg>> = expected
        /\ last.ok <=> /\ Strip(last.name) # <<>>
                       /\ OnlyDecimalDigits(q_str)
                       /\ 1 <= ParseInt(q_str)
                       /\ ParseInt(q_str) <= M

(* C10: the cart's lines and max_per_item change only in add_item,          *)
(* remove_item, adjust_quantity and clear steps; validate_order_fields (on  *)
(* any input), to_list, find_index and is_empty leave them unchanged        *)
C10_OnlyMutatorsChange ==
    /\ (items # last.before \/ max_per_item # last.cap) =>
          last.op \in {"add_item", "remove_item", "adjust_quantity", "clear"}
    /\ last.op \in {"validate_order_fields", "to_list", "find_index", "is_empty"} =>
          (items = last.before /\ max_per_item = last.cap)

(* validate_order_fields accepted its input while the cart held a line *)
C10_Witness ==
    /\ last.op = "validate_order_fields"
    /\ last.ok
    /\ items # <<>>

(* C16: clear() empties the cart from any state (to_list() is then empty   *)
(* and is_empty() is True) and is idempotent: a second clear() leaves the  *)
(* state of the first; is_empty() is True exactly when there are no lines  *)
C16_ClearEmpties ==
    /\ last.op = "clear" =>
          /\ items = <<>>
          /\ ToList(items) = <<>>
          /\ IsEmpty(items)
          /\ ClearResult(items) = items
    /\ last.op = "is_empty" => (last.ok <=> items = <<>>)

(* clear() was called on a cart of two or more lines *)
C16_Witness ==
    /\ last.op = "clear"
    /\ Len(last.before) >= 2
    /\ items = <<>>

NamesOf(its) == [i \in 1..Len(its) |-> its[i][1]]

Without(its, name) == SelectSeq(its, LAMBDA line : line[1] # name)

(* C17: the cart keeps insertion order: add_item on a present name and     *)
(* adjust_quantity keep every line at its position; add_item on an absent  *)
(* name (never added, or removed before) puts it at the end; remove_item   *)
(* deletes one line and keeps the order of the others; to_list() returns   *)
(* the lines in that order                                                 *)
C17_InsertionOrder ==
    /\ (last.op = "add_item" /\ last.ok /\ InCart(last.before, last.name)) =>
          NamesOf(items) = NamesOf(last.before)
    /\ (last.op = "add_item" /\ last.ok /\ ~InCart(last.before, last.name)) =>
          NamesOf(items) = Append(NamesOf(last.before), last.name)
    /\ last.op = "adjust_quantity" => NamesOf(items) = NamesOf(last.before)
    /\ (last.op = "remove_item" /\ last.ok) =>
          /\ items = Without(last.before, last.name)
          /\ Len(items) = Len(last.before) - 1
    /\ last.op = "to_list" => last.list = items

(* remove_item deleted the first of three lines *)
C17_Witness ==
    /\ last.op = "remove_item"
    /\ last.ok
    /\ Len(last.before) = 3
    /\ last.before[1][1] = last.name
    /\ items = <<last.before[2], last.before[3]>>

AllNameInputs == Names \cup FewNameInputs

MaxSnapLen == 2

(* a tuple a caller may put into its list; no cart line looks like it *)
CallerLine == <<<<"Z">>, 0>>

ToListReturnsStorage(its) == [fresh |-> FALSE, val |-> its]

(* return list(self._items) *)
ToListObject(its) == [fresh |-> TRUE, val |-> ToList(its)]

SnapshotView == IF snap.fresh THEN snap.val ELSE items

(* snapshot = cart.to_list() *)
TakeSnapshot ==
    /\ LET o == ToListObject(items) IN
         snap' = [held |-> TRUE, fresh |-> o.fresh, val |-> o.val]
    /\ last' = Call("to_list", <<>>, TRUE, 0, <<>>, TRUE, <<>>, 0,
                    ToListObject(items).val, "")
    /\ UNCHANGED <<items, max_per_item, disk, ui>>

(* The caller edits the list it holds.  The edit lands in the object the   *)
(* list is: the caller's own copy, or the cart's storage if to_list gave   *)
(* that out.                                                               *)
CallerEdit(op, editedList, editedStorage) ==
    /\ snap.held
    /\ snap' = [snap EXCEPT !.val = editedList]
    /\ items' = IF snap.fresh THEN items ELSE editedStorage
    /\ last' = Call(op, <<>>, TRUE, 0, <<>>, TRUE, <<>>, 0, <<>>, "")
    /\ UNCHANGED <<max_per_item, disk, ui>>

AppendLine(l) == Append(l, CallerLine)

DeleteFirst(l) == IF l = <<>> THEN l ELSE Tail(l)

ReplaceFirst(l) == IF l = <<>> THEN l ELSE [l EXCEPT ![1] = CallerLine]

(* snapshot.append(x) *)
SnapshotAppend ==
    /\ Len(snap.val) < MaxSnapLen
    /\ CallerEdit("snapshot.append", AppendLine(snap.val), AppendLine(items))

(* del snapshot[0] *)
SnapshotDelete ==
    /\ snap.val # <<>>
    /\ CallerEdit("snapshot.delete", DeleteFirst(snap.val), DeleteFirst(items))

(* snapshot[0] = x *)
SnapshotReplace ==
    /\ snap.val # <<>>
    /\ snap.val[1] # CallerLine
    /\ CallerEdit("snapshot.replace", ReplaceFirst(snap.val), ReplaceFirst(items))

InitSnapshot ==
    /\ items = <<>>
    /\ max_per_item \in 1..OrderCap
    /\ last = Call("init", <<>>, TRUE, 0, <<>>, TRUE, <<>>, 0, <<>>, "")
    /\ InitExt

NextSnapshot ==
    \/ AddItem(KioskNames)
    \/ RemoveItem(KioskNames)
    \/ AdjustQuantity(KioskNames)
    \/ Clear
    \/ TakeSnapshot
    \/ SnapshotAppend
    \/ SnapshotDelete
    \/ SnapshotReplace

SpecSnapshot == InitSnapshot /\ [][NextSnapshot]_vars

SnapshotOps == {"snapshot.append", "snapshot.delete", "snapshot.replace"}

(* C11: a list returned by to_list() is the caller's own.  After the      *)
(* caller appends to it, deletes from it or replaces an element of it,    *)
(* the cart holds what it held before (so the next to_list() returns      *)
(* the same lines), and a cart operation made after the list was taken    *)
(* leaves the list as the caller has it.                                  *)
C11_SnapshotIndependent ==
    /\ last.op \in SnapshotOps => ToList(items) = ToList(last.before)
    /\ snap.held => SnapshotView = snap.val

(* the caller has edited its list while the cart held a line, and the  *)
(* list and the cart now differ                                        *)
C11_Witness ==
    /\ last.op \in SnapshotOps
    /\ snap.held
    /\ items # <<>>
    /\ snap.val # items


(***************************************************************************)
(* load_items.  disk is data/items.csv as open() and csv.reader see it:    *)
(* whether it can be opened and decoded, its first line split into column  *)
(* names, and its further lines split into cells.  A dict is a function    *)
(* from its keys; a value is a str, None, or the list DictReader stores    *)
(* under its restkey.                                                      *)
(***************************************************************************)
MaxRows == 1

FullHeader == <<"name", "category", "tag">>

Columns == {FullHeader[p] : p \in DOMAIN FullHeader}

Headers == {SubSeq(FullHeader, 1, n) : n \in 0..Len(FullHeader)}

DataCells == {<<>>, <<"A">>}

(* lines of up to three cells; only the last cell of a line may be empty *)
DataRows ==
    {row \in UNION {[1..n -> DataCells] : n \in 0..Len(FullHeader)} :
        \A p \in 1..(Len(row) - 1) : row[p] # <<>>}

RowLists == UNION {[1..n -> DataRows] : n \in 0..MaxRows}

DiskStates ==
    {[status |-> "ok", header |-> h, rows |-> rs] :
        h \in Headers, rs \in RowLists}
    \cup {[status |-> s, header |-> <<>>, rows |-> <<>>] :
            s \in {"missing", "denied", "corrupt"}}

StrVal(s) == [kind |-> "str", str |-> s, rest |-> <<>>]

NoneVal == [kind |-> "None", str |-> <<>>, rest |-> <<>>]

ListVal(l) == [kind |-> "list", str |-> <<>>, rest |-> l]

(* DictReader's restkey=None: the key of the cells beyond the header *)
RestKey == "<None>"

ColumnOf(header, key) == CHOOSE p \in DOMAIN header : header[p] = key

(* csv.DictReader.__next__: dict(zip(fieldnames, row)), the surplus cells *)
(* under restkey, the missing ones set to restval=None                    *)
DictReaderRow(header, row) ==
    LET lf == Len(header)
        lr == Len(row)
        keys == {header[p] : p \in DOMAIN header}
                  \cup (IF lf < lr THEN {RestKey} ELSE {})
    IN [key \in keys |->
          IF key = RestKey THEN ListVal(SubSeq(row, lf + 1, lr))
          ELSE IF ColumnOf(header, key) <= lr
               THEN StrVal(row[ColumnOf(header, key)])
               ELSE NoneVal]

(* dict.setdefault(key, default) *)
SetDefault(d, key, default) ==
    [k \in DOMAIN d \cup {key} |-> IF k \in DOMAIN d THEN d[k] ELSE default]

IsDataRow(row) == row # <<>>

(* the rows DictReader yields: it skips the lines that are empty *)
RowsRead(d) == SelectSeq(d.rows, IsDataRow)

(* list(reader), then the three setdefault calls on each row *)
RecordsOf(d) ==
    [k \in 1..Len(RowsRead(d)) |->
        SetDefault(SetDefault(SetDefault(
            DictReaderRow(d.header, RowsRead(d)[k]),
            "name", StrVal(<<>>)), "category", StrVal(<<>>)),
            "tag", StrVal(<<>>))]

(* what open() or the read raises *)
Raised(d) ==
    CASE d.status = "missing" -> "FileNotFoundError"
      [] d.status = "denied" -> "PermissionError"
      [] d.status = "corrupt" -> "UnicodeDecodeError"
      [] OTHER -> ""

LoadItemsOnlyCatchesNotFound(d) ==
    IF Raised(d) = "" THEN [list |-> RecordsOf(d), exc |-> "", log |-> ""]
    ELSE IF Raised(d) = "FileNotFoundError"
    THEN [list |-> <<>>, exc |-> "", log |-> "not found"]
    ELSE [list |-> <<>>, exc |-> Raised(d), log |-> ""]

LoadItemsResult(d) ==
    IF Raised(d) = "" THEN [list |-> RecordsOf(d), exc |-> "", log |-> ""]
    ELSE IF Raised(d) = "FileNotFoundError"
    THEN [list |-> <<>>, exc |-> "", log |-> "not found"]
    ELSE [list |-> <<>>, exc |-> "", log |-> "failed"]

(* items = load_items() *)
LoadItems ==
    /\ LET r == LoadItemsResult(disk) IN
         last' = Call("load_items", <<>>, TRUE, 0, <<>>, r.exc = "",
                      <<r.log>>, 0, r.list, r.exc)
    /\ UNCHANGED <<items, max_per_item, ext>>

InitCatalog ==
    /\ items = <<>>
    /\ max_per_item \in 1..OrderCap
    /\ last = Call("init", <<>>, TRUE, 0, <<>>, TRUE, <<>>, 0, <<>>, "")
    /\ snap = NoSnap
    /\ disk \in DiskStates
    /\ ui = RootOnly

NextCatalog ==
    \/ LoadItems
    \/ AddItem(KioskNames)
    \/ RemoveItem(KioskNames)

SpecCatalog == InitCatalog /\ [][NextCatalog]_vars

(* the column of key is missing from the header, or the row ends before it *)
CellAbsent(header, row, key) ==
    \/ key \notin {header[p] : p \in DOMAIN header}
    \/ ColumnOf(header, key) > Len(row)

(* C14: every record load_items returns has the keys name, category and  *)
(* tag, and a key whose column is missing from the header, or whose cell *)
(* is missing because the row is shorter than the header, has the value  *)
(* ''.                                                                   *)
C14_AllKeysDefaulted ==
    last.op = "load_items" =>
        \A k \in 1..Len(last.list) : \A key \in Columns :
            /\ key \in DOMAIN last.list[k]
            /\ CellAbsent(disk.header, RowsRead(disk)[k], key)
                 => last.list[k][key] = StrVal(<<>>)

(* C15: when data/items.csv is missing or cannot be read, load_items    *)
(* returns [] and raises nothing, and the cart holds after the call     *)
(* what it held before it, whatever that was.                           *)
C15_LoadFailureIsEmpty ==
    (last.op = "load_items" /\ disk.status # "ok") =>
        /\ last.list = <<>>
        /\ last.exc = ""
        /\ items = last.before

(* the load of a file that cannot be opened, made with a line in the cart *)
C15_Witness ==
    /\ last.op = "load_items"
    /\ disk.status = "denied"
    /\ items # <<>>

(***************************************************************************)
(* The windows.  ui.grab is the window grab_set() was last called on, as   *)
(* long as that window exists: while a window holds the grab, Tk delivers  *)
(* the user's clicks to it alone, and when it is destroyed the grab is     *)
(* released and every window takes clicks again.  ui.cartWin[k].rows are   *)
(* the names of the rows refresh_cart last rendered in cart window k: the  *)
(* row at position i has captured the index i and its name.  ui.popup is   *)
(* the quantity popup ("qty"), the adjust popup of cart window k ("adj"),  *)
(* or an adjust popup whose handler raised before it built its widgets     *)
(* ("broken").  The model has one items window and one popup at a time.    *)
(***************************************************************************)
Win(kind, k) == [kind |-> kind, k |-> k]

ItemsWin == Win("items", 0)

PopupWin == Win("popup", 0)

(* the user's click reaches window w *)
CanUse(w) == ui.grab = NoGrab \/ ui.grab = w

(* what a handler shows, next to the call it makes to the core *)
UIEvent(op, name, idx, qty, valid, ok, msg, shown, answer, exc) ==
    Call(op, name, TRUE, qty, <<>>, ok, msg, idx, <<>>, exc)
        @@ [valid |-> valid, shown |-> shown, answer |-> answer]

Pressed(op) == UIEvent(op, <<>>, 0, 0, TRUE, TRUE, <<>>, <<>>, FALSE, "")

(* a file with one full row for each name *)
SetToSeq(S) ==
    CHOOSE f \in [1..Cardinality(S) -> S] : \A x \in S : \E i \in DOMAIN f : f[i] = x

CatalogFile(N) ==
    [status |-> "ok", header |-> FullHeader,
     rows |-> [i \in 1..Cardinality(N) |-> <<SetToSeq(N)[i], <<"F">>, <<>>>>]]

(* render_items: item_name of each row load_items returns *)
CatalogNames ==
    LET recs == LoadItemsResult(disk).list IN
    {recs[i]["name"].str : i \in {j \in DOMAIN recs : recs[j]["name"].kind = "str"}}

FreeCartWindows(W) == {k \in W : ~ui.cartWin[k].open}

(* show_order_window: a new cart window, the grab, refresh_cart() *)
ShowOrderWindow(W) ==
    /\ FreeCartWindows(W) # {}
    /\ LET k == CHOOSE f \in FreeCartWindows(W) :
                    \A g \in FreeCartWindows(W) : f <= g IN
         ui' = [ui EXCEPT !.cartWin[k] = [open |-> TRUE,
                                          rows |-> NamesOf(ToList(items))],
                          !.grab = Win("cart", k)]
    /\ UNCHANGED <<items, max_per_item, snap, disk>>

(* root menu, "View Items": show_items_window *)
RootViewItems ==
    /\ CanUse(Win("root", 0))
    /\ ~ui.itemsOpen
    /\ ui' = [ui EXCEPT !.itemsOpen = TRUE, !.grab = ItemsWin]
    /\ last' = Pressed("show_items_window")
    /\ UNCHANGED <<items, max_per_item, snap, disk>>

(* root menu, "View Cart" *)
RootViewCart(W) ==
    /\ CanUse(Win("root", 0))
    /\ ShowOrderWindow(W)
    /\ last' = Pressed("show_order_window")

(* items window, "Go to Cart" *)
ItemsGoToCart(W) ==
    /\ ui.itemsOpen
    /\ CanUse(ItemsWin)
    /\ ShowOrderWindow(W)
    /\ last' = Pressed("show_order_window")

(* items window, "<-": item_window.destroy, its popup goes with it *)
ItemsBack ==
    /\ ui.itemsOpen
    /\ CanUse(ItemsWin)
    /\ ui' = [ui EXCEPT
                !.itemsOpen = FALSE,
                !.popup = IF ui.popup.kind = "qty" THEN NoPopup ELSE ui.popup,
                !.grab = IF ui.grab = ItemsWin
                            \/ (ui.grab = PopupWin /\ ui.popup.kind = "qty")
                         THEN NoGrab ELSE ui.grab]
    /\ last' = Pressed("item_window.destroy")
    /\ UNCHANGED <<items, max_per_item, snap, disk>>

(* items window, "Add" of a rendered item: open_quantity_popup(name) *)
ItemsAdd ==
    /\ ui.itemsOpen
    /\ CanUse(ItemsWin)
    /\ ui.popup.kind = "none"
    /\ \E name \in CatalogNames :
         /\ ui' = [ui EXCEPT !.popup = [kind |-> "qty", k |-> 0,
                                        name |-> name, qty |-> 1],
                             !.grab = PopupWin]
         /\ last' = UIEvent("open_quantity_popup", name, 0, 1, TRUE, TRUE,
                            <<>>, <<>>, FALSE, "")
    /\ UNCHANGED <<items, max_per_item, snap, disk>>

(* the "+" and "-" buttons of both popups *)
Plus(q) == IF q < max_per_item THEN q + 1 ELSE q

Minus(q) == IF q > 1 THEN q - 1 ELSE q

SetQty(op, q) ==
    /\ CanUse(PopupWin)
    /\ ui' = [ui EXCEPT !.popup.qty = q]
    /\ last' = Pressed(op)
    /\ UNCHANGED <<items, max_per_item, snap, disk>>

(* increase written with <= in place of < *)
QtyIncreasePastCap ==
    /\ ui.popup.kind = "qty"
    /\ SetQty("increase", IF ui.popup.qty <= max_per_item
                          THEN ui.popup.qty + 1 ELSE ui.popup.qty)

(* open_quantity_popup.increase *)
QtyIncrease ==
    /\ ui.popup.kind = "qty"
    /\ SetQty("increase", Plus(ui.popup.qty))

(* open_quantity_popup.decrease *)
QtyDecrease ==
    /\ ui.popup.kind = "qty"
    /\ SetQty("decrease", Minus(ui.popup.qty))

(* on_adjust.inc *)
AdjIncrease ==
    /\ ui.popup.kind = "adj"
    /\ SetQty("inc", Plus(ui.popup.qty))

(* on_adjust.dec *)
AdjDecrease ==
    /\ ui.popup.kind = "adj"
    /\ SetQty("dec", Minus(ui.popup.qty))

(* a popup closed by its title bar: the window is destroyed *)
PopupClose ==
    /\ ui.popup.kind # "none"
    /\ CanUse(PopupWin)
    /\ ui' = [ui EXCEPT !.popup = NoPopup, !.grab = NoGrab]
    /\ last' = Pressed("popup.destroy")
    /\ UNCHANGED <<items, max_per_item, snap, disk>>

(* open_quantity_popup.confirm; the token "TIMES" is the character U+00D7 *)
QtyConfirm ==
    /\ ui.popup.kind = "qty"
    /\ CanUse(PopupWin)
    /\ LET name == ui.popup.name
           q == ui.popup.qty
           v == ValidateOrderFields(max_per_item, name, TRUE, q, <<>>)
           r == AddItemResult(items, max_per_item, name, q)
       IN IF ~v.ok
          THEN /\ last' = UIEvent("confirm", name, 0, q, FALSE, FALSE, v.msg,
                                  v.msg, FALSE, v.exc)
               /\ UNCHANGED <<items, ui>>
          ELSE /\ items' = r.items
               /\ ui' = [ui EXCEPT !.popup = NoPopup, !.grab = NoGrab]
               /\ last' = UIEvent("confirm", name, 0, q, TRUE, r.ok, r.msg,
                                  IntToStr(q) \o <<" ", "TIMES", " ">> \o name
                                      \o <<" added to cart!">>,
                                  FALSE, "")
    /\ UNCHANGED <<max_per_item, snap, disk>>

(* cart window k, "<-": order_window.destroy, its popup goes with it *)
CartBack(W) ==
    \E k \in W :
        /\ ui.cartWin[k].open
        /\ CanUse(Win("cart", k))
        /\ LET mine == ui.popup.kind \in {"adj", "broken"} /\ ui.popup.k = k IN
             ui' = [ui EXCEPT
                      !.cartWin[k] = [open |-> FALSE, rows |-> <<>>],
                      !.popup = IF mine THEN NoPopup ELSE ui.popup,
                      !.grab = IF ui.grab = Win("cart", k)
                                  \/ (ui.grab = PopupWin /\ mine)
                               THEN NoGrab ELSE ui.grab]
        /\ last' = Pressed("order_window.destroy")
        /\ UNCHANGED <<items, max_per_item, snap, disk>>

(* refresh_cart in cart window k: one row for each line of to_list() *)
RefreshCart(k, its) ==
    [ui EXCEPT !.cartWin[k].rows = NamesOf(ToList(its))]

(* cart window k, "Remove" of the row rendered at position i: on_remove *)
CartRemove(W) ==
    \E k \in W :
        /\ ui.cartWin[k].open
        /\ CanUse(Win("cart", k))
        /\ \E i \in DOMAIN ui.cartWin[k].rows :
             LET n == ui.cartWin[k].rows[i]
                 r == RemoveItemResult(items, n) IN
             /\ items' = r.items
             /\ ui' = RefreshCart(k, r.items)
             /\ last' = UIEvent("on_remove", n, i, 0, TRUE, r.ok, <<>>,
                                IF r.ok THEN n \o <<" removed.">> ELSE <<>>,
                                FALSE, "")
        /\ UNCHANGED <<max_per_item, snap, disk>>

(* cart window k, "Adjust Quantity" of the row rendered at position i:   *)
(* on_adjust creates the popup and takes the grab, then reads            *)
(* cart.to_list()[i][1], which raises IndexError past the end            *)
CartAdjust(W) ==
    \E k \in W :
        /\ ui.cartWin[k].open
        /\ CanUse(Win("cart", k))
        /\ ui.popup.kind = "none"
        /\ \E i \in DOMAIN ui.cartWin[k].rows :
             LET n == ui.cartWin[k].rows[i] IN
             IF i > Len(ToList(items))
             THEN /\ ui' = [ui EXCEPT !.popup = [kind |-> "broken", k |-> k,
                                                 name |-> n, qty |-> 0],
                                      !.grab = PopupWin]
                  /\ last' = UIEvent("on_adjust", n, i, 0, TRUE, FALSE, <<>>,
                                     <<>>, FALSE, "IndexError")
             ELSE /\ ui' = [ui EXCEPT !.popup = [kind |-> "adj", k |-> k,
                                                 name |-> n,
                                                 qty |-> ToList(items)[i][2]],
                                      !.grab = PopupWin]
                  /\ last' = UIEvent("on_adjust", n, i, ToList(items)[i][2],
                                     TRUE, TRUE, <<>>, <<>>, FALSE, "")
        /\ UNCHANGED <<items, max_per_item, snap, disk>>

(* on_adjust.confirm_adj *)
AdjConfirm ==
    /\ ui.popup.kind = "adj"
    /\ CanUse(PopupWin)
    /\ LET n == ui.popup.name
           r == AdjustQuantityResult(items, max_per_item, n, ui.popup.qty)
       IN IF ~r.ok
          THEN /\ last' = UIEvent("confirm_adj", n, 0, ui.popup.qty, TRUE,
                                  FALSE, r.msg, r.msg, FALSE, "")
               /\ UNCHANGED <<items, ui>>
          ELSE /\ items' = r.items
               /\ ui' = [RefreshCart(ui.popup.k, r.items) EXCEPT
                           !.popup = NoPopup, !.grab = NoGrab]
               /\ last' = UIEvent("confirm_adj", n, 0, ui.popup.qty, TRUE,
                                  TRUE, r.msg, n \o <<" quantity updated.">>,
                                  FALSE, "")
    /\ UNCHANGED <<max_per_item, snap, disk>>

(* what submit_order_action does in cart window k once the user has *)
(* answered the askyesno dialog                                     *)
SubmitAnswered(k, answer) ==
    IF IsEmpty(items)
    THEN /\ last' = UIEvent("submit_order_action", <<>>, 0, 0, TRUE, FALSE,
                            <<>>, <<"Cart is empty!">>, FALSE, "")
         /\ UNCHANGED <<items, ui>>
    ELSE IF ~answer
    THEN /\ last' = UIEvent("submit_order_action", <<>>, 0, 0, TRUE, FALSE,
                            <<>>, <<>>, FALSE, "")
         /\ UNCHANGED <<items, ui>>
    ELSE /\ items' = ClearResult(items)
         /\ ui' = RefreshCart(k, ClearResult(items))
         /\ last' = UIEvent("submit_order_action", <<>>, 0, 0, TRUE, TRUE,
                            <<>>, <<"Your order has been submitted!">>,
                            TRUE, "")

(* submit_order_action without the askyesno dialog *)
CartSubmitNoConfirm(W) ==
    \E k \in W :
        /\ ui.cartWin[k].open
        /\ CanUse(Win("cart", k))
        /\ \E answer \in BOOLEAN :
             IF IsEmpty(items) \/ answer
             THEN SubmitAnswered(k, answer)
             ELSE /\ items' = ClearResult(items)
                  /\ ui' = RefreshCart(k, ClearResult(items))
                  /\ last' = UIEvent("submit_order_action", <<>>, 0, 0, TRUE,
                                     FALSE, <<>>, <<>>, FALSE, "")
        /\ UNCHANGED <<max_per_item, snap, disk>>

(* cart window k, "Submit Order": submit_order_action *)
CartSubmit(W) ==
    \E k \in W :
        /\ ui.cartWin[k].open
        /\ CanUse(Win("cart", k))
        /\ \E answer \in BOOLEAN : SubmitAnswered(k, answer)
        /\ UNCHANGED <<max_per_item, snap, disk>>

(* the names in the catalog: a row of the file may have an empty name *)
ScreenNames == Names \cup {<<>>}

(* program start with the catalog file in place.  The handlers read the *)
(* cap from cart.max_per_item; the windows are explored with the cap    *)
(* MaxCap in place of the kiosk's 10.                                    *)
InitUI(N) ==
    /\ items = <<>>
    /\ max_per_item = MaxCap
    /\ last = Call("init", <<>>, TRUE, 0, <<>>, TRUE, <<>>, 0, <<>>, "")
    /\ snap = NoSnap
    /\ disk = CatalogFile(N)
    /\ ui = RootOnly

InitScreens == InitUI(ScreenNames)

NextScreens ==
    \/ RootViewItems
    \/ RootViewCart(CartWindowIds)
    \/ ItemsGoToCart(CartWindowIds)
    \/ ItemsBack
    \/ ItemsAdd
    \/ QtyIncrease
    \/ QtyDecrease
    \/ QtyConfirm
    \/ PopupClose
    \/ CartBack(CartWindowIds)
    \/ CartRemove(CartWindowIds)
    \/ CartAdjust(CartWindowIds)
    \/ AdjIncrease
    \/ AdjDecrease
    \/ AdjConfirm
    \/ CartSubmit(CartWindowIds)

SpecScreens == InitScreens /\ [][NextScreens]_vars

UIOps ==
    {"show_items_window", "show_order_window", "item_window.destroy",
     "open_quantity_popup", "increase", "decrease", "inc", "dec",
     "popup.destroy", "confirm", "order_window.destroy", "on_remove",
     "on_adjust", "confirm_adj", "submit_order_action"}

(* C12: Submit Order on an empty cart shows "Cart is empty!" and changes  *)
(* nothing; on a cart with lines it empties the cart when the user        *)
(* answers yes and leaves the cart as it was when the user answers no;    *)
(* no other handler of the windows takes a cart of two or more lines to   *)
(* the empty cart in one step.                                            *)
C12_SubmitClears ==
    /\ last.op = "submit_order_action" =>
         /\ last.before = <<>> =>
              (last.shown = <<"Cart is empty!">> /\ items = last.before)
         /\ (last.before # <<>> /\ last.answer) => items = <<>>
         /\ (last.before # <<>> /\ ~last.answer) => items = last.before
    /\ (last.op \in UIOps /\ Len(last.before) >= 2 /\ items = <<>>)
         => last.op = "submit_order_action"

(* a confirmed submit of a cart of two lines *)
C12_Witness ==
    /\ last.op = "submit_order_action"
    /\ Len(last.before) >= 2
    /\ last.answer
    /\ items = <<>>

(* C13: the text shown after a confirmed add is the message add_item   *)
(* returned, and the text shown after a confirmed adjust is the        *)
(* message adjust_quantity returned.                                   *)
C13_MessagesVerbatim ==
    /\ (last.op = "confirm" /\ last.valid) => last.shown = last.msg
    /\ last.op = "confirm_adj" => last.shown = last.msg

(* C18: when Adjust Quantity of a rendered row is pressed, the index the *)
(* row captured is a position of the cart, the line there has the row's  *)
(* name, and the popup starts from that name's quantity.                 *)
C18_CapturedIndexValid ==
    last.op = "on_adjust" =>
        /\ last.exc = ""
        /\ last.idx \in 1..Len(last.before)
        /\ last.before[last.idx][1] = last.name
        /\ ui.popup.kind = "adj"
        /\ ui.popup.qty = QtyOf(last.before, last.name)

QuantityRejections ==
    {<<"Quantity must be a whole number.">>,
     <<"Quantity must be greater than zero.">>,
     Fmt("Quantity must be no more than ", max_per_item, ".")}

(* C19: the quantity selected in the add popup and in the adjust popup  *)
(* is always between 1 and max_per_item; confirm in the add popup is    *)
(* never answered with a rejection of the quantity, and the add_item    *)
(* call it makes returns ok = True.                                     *)
C19_PopupQuantityInRange ==
    /\ ui.popup.kind \in {"qty", "adj"} => ui.popup.qty \in 1..max_per_item
    /\ last.op = "confirm" =>
         /\ last.exc = ""
         /\ last.msg \notin QuantityRejections
         /\ ~last.valid => Strip(last.name) = <<>>
         /\ last.valid => last.ok

(* an add of the largest quantity, reached with "+", has been confirmed *)
C19_Witness ==
    /\ last.op = "confirm"
    /\ last.valid
    /\ last.ok
    /\ last.qty = max_per_item
    /\ last.qty > 1


NamesIn(its) == {its[i][1] : i \in 1..Len(its)}

(* C21: add_item, adjust_quantity and remove_item change at most the line *)
(* of the name they are called with: every other name is in the cart      *)
(* after the call exactly if it was before, with the same quantity; and   *)
(* max_per_item is what it was before the call.                           *)
C21_OtherLinesUntouched ==
    /\ max_per_item = last.cap
    /\ last.op \in {"add_item", "adjust_quantity", "remove_item"} =>
         \A n \in (NamesIn(last.before) \cup NamesIn(items)) \ {last.name} :
            /\ InCart(items, n) <=> InCart(last.before, n)
            /\ InCart(items, n) => QtyOf(items, n) = QtyOf(last.before, n)

(* a call has changed or removed the first line of a cart of two lines, *)
(* so a line after it had to be kept                                    *)
C21_Witness ==
    /\ last.op \in {"add_item", "adjust_quantity", "remove_item"}
    /\ Len(last.before) = 2
    /\ last.before[1][1] = last.name
    /\ items # last.before

(* C22: an add_item step lowers no quantity and removes no name; add_item  *)
(* with qty >= 1 on a name that is at max_per_item leaves it there and     *)
(* returns True with the capped message; a quantity is lower after a step  *)
(* only if the step is adjust_quantity, and a name is gone after a step    *)
(* only if the step is remove_item or clear.                               *)
C22_AddNeverLowers ==
    /\ last.op = "add_item" =>
         \A n \in NamesIn(last.before) :
            /\ InCart(items, n)
            /\ QtyOf(items, n) >= QtyOf(last.before, n)
    /\ (/\ last.op = "add_item"
        /\ last.qty >= 1
        /\ InCart(last.before, last.name)
        /\ QtyOf(last.before, last.name) = last.cap) =>
         /\ QtyOf(items, last.name) = last.cap
         /\ last.ok
         /\ last.msg = Fmt("Updated (capped at ", last.cap, ").")
    /\ \A n \in NamesIn(last.before) :
         /\ (InCart(items, n) /\ QtyOf(items, n) < QtyOf(last.before, n))
              => last.op = "adjust_quantity"
         /\ ~InCart(items, n) => last.op \in {"remove_item", "clear"}

(* add_item with qty >= 1 was called on a name already at max_per_item *)
C22_Witness ==
    /\ last.op = "add_item"
    /\ last.qty >= 1
    /\ InCart(last.before, last.name)
    /\ QtyOf(last.before, last.name) = last.cap
    /\ Len(items) = 2

=============================================================================
